---- MODULE Spec2Model ----
(***************************************************************************)
(* Model of the coreference-chain reference-error detector                 *)
(* (src/error_detection/coref_chain_detector.py, detector.py).             *)
(*                                                                         *)
(* Python indices are kept 0-based wherever the code stores or returns     *)
(* them (token indices, sentence indices, error indices); TLA+ sequences   *)
(* are 1-based, so element i of a Python list l is l[i + 1] here.          *)
(***************************************************************************)
EXTENDS Integers, Sequences, FiniteSets, TLC

VARIABLES
    pc,             \* position of the modelled call
    \* ---- recursive_np_vp_search (the phrase extractor) ----
    tree,           \* the constituency (sub)tree handed to the search
    node_pair,      \* local node_pair: the (NP, VP) pair just found, or NoPair
    np_start_i,     \* local np_start_i
    pair_dicts,     \* local pair_dicts, the list being built / returned
    \* ---- check_chain_link_oneway (the consistency checker) ----
    chain_ids,       \* parameter chain_ids
    other_chain_ids, \* parameter other_chain_ids
    i_chain,         \* loop variable i
    chain_id_map,    \* local chain_id_map
    error_indices,   \* local error_indices, returned at the end
    \* ---- run_detection / match_np_bo_vp (the pipeline) ----
    summary_len,     \* len(summary), the caller's list of summary sentences
    src_annotation,  \* the provider's annotation of source_text
    sum_annotation,  \* the provider's annotation of " ".join(summary)
    rouge_scores,    \* local rouge_scores of match_np_bo_vp (hundredths)
    parse_tree_matches,    \* the list of ParseTreeMatch objects
    chain,                 \* loop variable chain (its chainID), 0 outside the loops
    src_sum_error_indices, \* line 80
    sum_src_error_indices, \* line 81
    i_report,              \* how many error indices the current report loop has done
    src_sent_indices,      \* DetectionResult.src_sent_indices
    sum_sent_indices,      \* DetectionResult.sum_sent_indices
    messages,              \* DetectionResult.messages
    \* ---- observers (not program state) ----
    src_reassigned,  \* set_src_chain_id was called on a match whose id was set
    sum_reassigned,  \* set_sum_chain_id was called on a match whose id was set
    example,         \* how far the run has followed the docstring example, or None
    coref_log,       \* the source mentions delivered so far (same-text runs only)
    \* ---- a detector called several times (repeated-call runs only) ----
    calls,           \* how many calls have been started on the detector
    inputs,          \* the caller's inputs, with the provider's answers for each
    input,           \* the name of the input of the current call
    results          \* for each input, the outcome of its first completed call

extract_vars == <<tree, node_pair, np_start_i, pair_dicts>>
chain_vars == <<chain_ids, other_chain_ids, i_chain, chain_id_map, error_indices>>
run_vars == <<summary_len, src_annotation, sum_annotation, rouge_scores,
              parse_tree_matches, chain, src_sum_error_indices,
              sum_src_error_indices, i_report, src_sent_indices,
              sum_sent_indices, messages>>
obs_vars == <<src_reassigned, sum_reassigned, example, coref_log>>
repeat_vars == <<calls, inputs, input, results>>
vars == <<pc, extract_vars, chain_vars, run_vars, obs_vars, repeat_vars>>

(***************************************************************************)
(* Python's None, for integer-valued fields (chain ids, VP_end_i before    *)
(* it is filled in).  Chain ids and indices are >= 0.                      *)
(***************************************************************************)
None == -1

(***************************************************************************)
(* Constituency trees.  A tree is an arena: node ids are 1..Len(value),    *)
(* value[n] is node.value, child[n] is node.child (a sequence of node      *)
(* ids, in order).  Node 0 is no node.                                     *)
(***************************************************************************)
NoPair == [NP |-> 0, VP |-> 0]

Max(S) == CHOOSE x \in S : \A y \in S : y <= x

\* The last child of `node` whose value is `v` (0 when there is none): the
\* loop of lines 316-320 overwrites nounp / verbp on every matching child.
LastChildWithValue(t, node, v) ==
    LET c == t.child[node]
        hits == {k \in 1..Len(c) : t.value[c[k]] = v}
    IN  IF hits = {} THEN 0 ELSE c[Max(hits)]

RECURSIVE parse_tree_string(_, _, _)
RECURSIVE parse_tree_string_children(_, _, _, _, _)

\* parse_tree_string: the tokens under `node` (the code's string, kept as the
\* sequence of its "token " pieces) and the end index reached from end_i.
parse_tree_string(t, node, end_i) ==
    IF Len(t.child[node]) > 0
    THEN parse_tree_string_children(t, t.child[node], 1, <<>>, end_i)
    ELSE [string |-> <<t.value[node]>>, end_i |-> end_i + 1]

\* The for loop of parse_tree_string over node.child, from child k on.
parse_tree_string_children(t, c, k, string, end_i) ==
    IF k > Len(c)
    THEN [string |-> string, end_i |-> end_i]
    ELSE LET sub == parse_tree_string(t, c[k], end_i)
         IN  parse_tree_string_children(t, c, k + 1, string \o sub.string, sub.end_i)

RECURSIVE _recursive_np_vp_search(_, _, _)
RECURSIVE _recursive_np_vp_search_children(_, _, _, _)

\* The search looking into the children before looking at the node itself
\* (the deepest pair first).
_recursive_np_vp_search_children_first(t, node, start_i) ==
    IF Len(t.child[node]) > 0
    THEN LET nounp == LastChildWithValue(t, node, "NP")
             verbp == LastChildWithValue(t, node, "VP")
             r == _recursive_np_vp_search_children(t, t.child[node], 1, start_i)
         IN  IF r.node_pair = NoPair /\ nounp # 0 /\ verbp # 0
             THEN [node_pair |-> [NP |-> nounp, VP |-> verbp], start_i |-> start_i]
             ELSE r
    ELSE [node_pair |-> NoPair, start_i |-> start_i + 1]

\* _recursive_np_vp_search: the first (NP, VP) sibling pair in pre-order under
\* `node`, with the start index the code returns along with it.
_recursive_np_vp_search(t, node, start_i) ==
    IF Len(t.child[node]) > 0
    THEN LET nounp == LastChildWithValue(t, node, "NP")
             verbp == LastChildWithValue(t, node, "VP")
         IN  IF nounp # 0 /\ verbp # 0
             THEN [node_pair |-> [NP |-> nounp, VP |-> verbp], start_i |-> start_i]
             ELSE _recursive_np_vp_search_children(t, t.child[node], 1, start_i)
    ELSE [node_pair |-> NoPair, start_i |-> start_i + 1]

\* The loop over node.child returning after its first child whatever that
\* child's search found (the slip of _recursive_value_search, lines 277-278).
_recursive_np_vp_search_first_child(t, c, k, start_i) ==
    IF k > Len(c)
    THEN [node_pair |-> NoPair, start_i |-> start_i]
    ELSE _recursive_np_vp_search(t, c[k], start_i)

\* The for loop of lines 326-331 over node.child, from child k on.
_recursive_np_vp_search_children(t, c, k, start_i) ==
    IF k > Len(c)
    THEN [node_pair |-> NoPair, start_i |-> start_i]
    ELSE LET r == _recursive_np_vp_search(t, c[k], start_i)
         IN  IF r.node_pair # NoPair
             THEN r
             ELSE _recursive_np_vp_search_children(t, c, k + 1, r.start_i)

\* new_pair_dict with the predicate start taken from the wrong variable (the
\* start index of the subject instead of its end index).
new_pair_dict_vp_at_np_start(t, pair, start_i) ==
    LET s == parse_tree_string(t, pair.NP, start_i)
    IN  [NP |-> pair.NP, VP |-> pair.VP,
         NP_string |-> s.string, NP_start_i |-> start_i, NP_end_i |-> s.end_i,
         VP_start_i |-> start_i,
         VP_string |-> <<>>, VP_end_i |-> None]

\* Lines 293-295: the dictionary appended for a found pair.  VP_string and
\* VP_end_i are absent from the Python dict until the final loop adds them.
new_pair_dict(t, pair, start_i) ==
    LET s == parse_tree_string(t, pair.NP, start_i)
    IN  [NP |-> pair.NP, VP |-> pair.VP,
         NP_string |-> s.string, NP_start_i |-> start_i, NP_end_i |-> s.end_i,
         VP_start_i |-> s.end_i,
         VP_string |-> <<>>, VP_end_i |-> None]

\* Lines 300-302: the final loop that adds VP_string and VP_end_i.
fill_vp(t, dicts) ==
    [i \in 1..Len(dicts) |->
        LET s == parse_tree_string(t, dicts[i].VP, dicts[i].VP_start_i)
        IN  [dicts[i] EXCEPT !.VP_string = s.string, !.VP_end_i = s.end_i]]

RECURSIVE np_vp_search_loop(_, _, _, _)
\* The while loop of lines 292-298.
np_vp_search_loop(t, pair, start_i, dicts) ==
    IF pair = NoPair
    THEN dicts
    ELSE LET d == new_pair_dict(t, pair, start_i)
             r == _recursive_np_vp_search(t, d.VP, d.VP_start_i)
         IN  np_vp_search_loop(t, r.node_pair, r.start_i, Append(dicts, d))

\* recursive_np_vp_search as a function of the tree and the node it is given.
recursive_np_vp_search(t, node) ==
    LET r == _recursive_np_vp_search(t, node, 0)
    IN  fill_vp(t, np_vp_search_loop(t, r.node_pair, r.start_i, <<>>))

(***************************************************************************)
(* Tree measures used to state the properties of the extractor.            *)
(***************************************************************************)
NodesOf(t) == 1..Len(t.value)

HasValueChild(t, n, v) == \E k \in 1..Len(t.child[n]) : t.value[t.child[n][k]] = v

\* A node with both a subject (NP) child and a predicate (VP) child.
HasNpVpChildren(t, n) == HasValueChild(t, n, "NP") /\ HasValueChild(t, n, "VP")

(***************************************************************************)
(* Bounded trees for the extractor: n nodes, node 1 the node given to the  *)
(* search, every other node hanging under an earlier node, children in     *)
(* increasing id order; every node but the first labelled NP, VP or X.     *)
(***************************************************************************)
MaxNodes == 5

Values == {"NP", "VP", "X"}

SortedSeq(S) ==
    [k \in 1..Cardinality(S) |-> CHOOSE x \in S : Cardinality({y \in S : y < x}) = k - 1]

TreesOfSize(n) ==
    { [value |-> [i \in 1..n |-> IF i = 1 THEN "S" ELSE lab[i]],
       child |-> [i \in 1..n |-> SortedSeq({j \in 2..n : par[j] = i})]] :
        par \in {p \in [2..n -> 1..n] : \A j \in 2..n : p[j] < j},
        lab \in [2..n -> Values] }

Trees == UNION {TreesOfSize(n) : n \in 1..MaxNodes}

NoTree == [value |-> <<>>, child |-> <<>>]

(***************************************************************************)
(* check_chain_link_oneway.                                                *)
(***************************************************************************)
EmptyMap == <<>>

\* The loop body with the link recorded the wrong way round (keyed by the
\* other list's id).
chain_link_step_reversed(A, B, i, st) ==
    LET a == B[i + 1]
        b == A[i + 1]
    IN  IF a # None /\ b # None
        THEN IF a \notin DOMAIN st.chain_id_map
             THEN [st EXCEPT !.chain_id_map = (a :> b) @@ st.chain_id_map]
             ELSE IF st.chain_id_map[a] # b
                  THEN [st EXCEPT !.error_indices = Append(st.error_indices, i)]
                  ELSE st
        ELSE st

\* The loop body without the "is not None" test of line 155.
chain_link_step_none_as_id(A, B, i, st) ==
    LET a == A[i + 1]
        b == B[i + 1]
    IN  IF a \notin DOMAIN st.chain_id_map
        THEN [st EXCEPT !.chain_id_map = (a :> b) @@ st.chain_id_map]
        ELSE IF st.chain_id_map[a] # b
             THEN [st EXCEPT !.error_indices = Append(st.error_indices, i)]
             ELSE st

\* The loop body replacing the recorded partner by the new one after a
\* mismatch (last-seen-wins).
chain_link_step_last_seen(A, B, i, st) ==
    LET a == A[i + 1]
        b == B[i + 1]
    IN  IF a # None /\ b # None
        THEN IF a \notin DOMAIN st.chain_id_map
             THEN [st EXCEPT !.chain_id_map = (a :> b) @@ st.chain_id_map]
             ELSE IF st.chain_id_map[a] # b
                  THEN [chain_id_map |-> (a :> b) @@ st.chain_id_map,
                        error_indices |-> Append(st.error_indices, i)]
                  ELSE st
        ELSE st

\* The loop body replacing the link on a mismatch and reporting nothing.
chain_link_step_relinks(A, B, i, st) ==
    LET a == A[i + 1]
        b == B[i + 1]
    IN  IF a # None /\ b # None
        THEN [st EXCEPT !.chain_id_map = (a :> b) @@ st.chain_id_map]
        ELSE st

\* Lines 155-162: the body of the loop for 0-based index i, on the locals
\* st = [chain_id_map, error_indices].
chain_link_step(A, B, i, st) ==
    LET a == A[i + 1]
        b == B[i + 1]
    IN  IF a # None /\ b # None
        THEN IF a \notin DOMAIN st.chain_id_map
             THEN [st EXCEPT !.chain_id_map = (a :> b) @@ st.chain_id_map]
             ELSE IF st.chain_id_map[a] # b
                  THEN [st EXCEPT !.error_indices = Append(st.error_indices, i)]
                  ELSE st
        ELSE st

RECURSIVE chain_link_loop(_, _, _, _)
\* The for loop of line 154, from index i on.
chain_link_loop(A, B, i, st) ==
    IF i >= Len(A)
    THEN st
    ELSE chain_link_loop(A, B, i + 1, chain_link_step(A, B, i, st))

\* check_chain_link_oneway as a function of its two lists.
check_chain_link_oneway(A, B) ==
    chain_link_loop(A, B, 0, [chain_id_map |-> EmptyMap, error_indices |-> <<>>]).error_indices

(***************************************************************************)
(* The annotation provider's sentences.  The pipeline runs on documents    *)
(* made of three sentence shapes (parseTree, node 1 = ROOT):               *)
(*   clause     (ROOT (S (NP George) (VP went store) .))                   *)
(*   advclause  (ROOT (S (ADVP Meanwhile) , (NP Michael) (VP was driving) .)) *)
(*   fragment   (ROOT (FRAG Yes .))      no subject/predicate siblings     *)
(***************************************************************************)
ClauseTree ==
    [value |-> <<"ROOT", "S", "NP", "VP", ".", "George", "went", "store">>,
     child |-> <<<<2>>, <<3, 4, 5>>, <<6>>, <<7, 8>>, <<>>, <<>>, <<>>, <<>>>>]

AdvClauseTree ==
    [value |-> <<"ROOT", "S", "ADVP", ",", "NP", "VP", ".",
                 "Meanwhile", "Michael", "was", "driving">>,
     child |-> <<<<2>>, <<3, 4, 5, 6, 7>>, <<8>>, <<>>, <<9>>, <<10, 11>>, <<>>,
                 <<>>, <<>>, <<>>, <<>>>>]

FragmentTree ==
    [value |-> <<"ROOT", "FRAG", "Yes", ".">>,
     child |-> <<<<2>>, <<3, 4>>, <<>>, <<>>>>]

\* sentence.parseTree of a sentence of the given shape.
parseTree(shape) ==
    CASE shape = "clause" -> ClauseTree
      [] shape = "advclause" -> AdvClauseTree
      [] shape = "fragment" -> FragmentTree

\* get_np_vp: the phrase dictionaries of one sentence (line 235).
get_np_vp(shape) ==
    LET t == parseTree(shape)
    IN  recursive_np_vp_search(t, t.child[1][1])

RECURSIVE collect_phrases(_, _, _, _)
\* The loops of lines 183-186 and 190-193, from sentence k (1-based) on:
\* the phrases of all sentences and, in parallel, their 0-based sentence ids.
collect_phrases(sentence, k, phrases, sent_ids) ==
    IF k > Len(sentence)
    THEN [phrases |-> phrases, sent_ids |-> sent_ids]
    ELSE LET phrase_dicts == get_np_vp(sentence[k])
         IN  collect_phrases(sentence, k + 1, phrases \o phrase_dicts,
                             sent_ids \o [x \in 1..Len(phrase_dicts) |-> k - 1])

\* Line 14, in hundredths.
min_match_score == 20

\* Scores Rouge may return for a pair of predicate strings, in hundredths:
\* below the threshold, exactly the threshold, and 1.0.
ScoreVals == {19, 20, 100}

\* The matrices rouge_scores can be for n source and m summary phrases
\* (lines 195-204; Rouge itself is an external library).
ScoreMatrices(n, m) == [1..n -> [1..m -> ScoreVals]]

\* The best row taken as the last row holding the maximum of column j.
argmax_column_last(scores, j) ==
    CHOOSE r \in 1..Len(scores) :
        /\ \A k \in 1..Len(scores) : scores[k][j] <= scores[r][j]
        /\ \A k \in (r + 1)..Len(scores) : scores[k][j] < scores[r][j]

\* np.argmax(rouge_scores, axis=0)[j]: the first row holding the maximum of
\* column j (rows and columns 1-based here).  Needs at least one row.
argmax_column(scores, j) ==
    CHOOSE r \in 1..Len(scores) :
        /\ \A k \in 1..Len(scores) : scores[k][j] <= scores[r][j]
        /\ \A k \in 1..(r - 1) : scores[k][j] < scores[r][j]

\* ParseTreeMatch.__init__ (lines 370-378).
ParseTreeMatch(src_sent_index, sum_sent_index, src_phrase, sum_phrase, match_rouge_score) ==
    [src_sent_index |-> src_sent_index,
     sum_sent_index |-> sum_sent_index,
     src_phrase |-> src_phrase,
     sum_phrase |-> sum_phrase,
     match_rouge_score |-> match_rouge_score,
     src_chain_id |-> None,
     sum_chain_id |-> None,
     src_chain_representative |-> "None",
     sum_chain_representative |-> "None"]

\* The retention test with a strict comparison.
retained_strict(scores, j) == scores[argmax_column(scores, j)][j] > min_match_score

\* The condition of the comprehension of lines 207-211 for column j.
retained(scores, j) == scores[argmax_column(scores, j)][j] >= min_match_score

RECURSIVE best_matches(_, _, _, _, _)
\* The comprehension of lines 207-211, from column j on.
best_matches(src, sum, scores, j, acc) ==
    IF j > Len(sum.phrases)
    THEN acc
    ELSE LET best == argmax_column(scores, j)
         IN  best_matches(src, sum, scores, j + 1,
                 IF retained(scores, j)
                 THEN Append(acc, ParseTreeMatch(src.sent_ids[best], sum.sent_ids[j],
                                                 src.phrases[best], sum.phrases[j],
                                                 scores[best][j]))
                 ELSE acc)

\* np.argmax raises ValueError ("attempt to get argmax of an empty sequence")
\* when the reduced axis is empty, i.e. when there is no source phrase.
argmax_raises(src) == Len(src.phrases) = 0

\* match_np_bo_vp (lines 206-213) on the collected phrases and the scores.
match_np_bo_vp(src, sum, scores) == best_matches(src, sum, scores, 1, <<>>)

\* Chain ids the provider uses in the pipeline runs, and the head string of
\* the representative mention of each chain (get_representative_string).
ChainIds == {1, 2}
get_representative_string(chainID) == <<"head_1", "head_2">>[chainID]

\* Start token indices a mention may have.
StartIndices == {0, 2}

\* The loop over parse_tree_matches stopping at the first match the mention
\* addresses.
couple_src_first_match(matches, chainID, sentNum, startIndex) ==
    [k \in 1..Len(matches) |->
        IF /\ sentNum = matches[k].src_sent_index
           /\ startIndex = matches[k].src_phrase.NP_start_i
           /\ \A q \in 1..(k - 1) :
                 ~ /\ sentNum = matches[q].src_sent_index
                   /\ startIndex = matches[q].src_phrase.NP_start_i
        THEN [matches[k] EXCEPT !.src_chain_id = chainID,
                                !.src_chain_representative = get_representative_string(chainID)]
        ELSE matches[k]]

\* Lines 52-57 for one source mention: the loop over parse_tree_matches.
couple_src(matches, chainID, sentNum, startIndex) ==
    [k \in 1..Len(matches) |->
        IF /\ sentNum = matches[k].src_sent_index
           /\ startIndex = matches[k].src_phrase.NP_start_i
        THEN [matches[k] EXCEPT !.src_chain_id = chainID,
                                !.src_chain_representative = get_representative_string(chainID)]
        ELSE matches[k]]

\* Lines 63-68 for one summary mention.
couple_sum(matches, chainID, sentNum, startIndex) ==
    [k \in 1..Len(matches) |->
        IF /\ sentNum = matches[k].sum_sent_index
           /\ startIndex = matches[k].sum_phrase.NP_start_i
        THEN [matches[k] EXCEPT !.sum_chain_id = chainID,
                                !.sum_chain_representative = get_representative_string(chainID)]
        ELSE matches[k]]

\* Lines 71-72.
src_ids_of(matches) == [k \in 1..Len(matches) |-> matches[k].src_chain_id]
sum_ids_of(matches) == [k \in 1..Len(matches) |-> matches[k].sum_chain_id]

\* summary[...] of lines 90 and 108 raises IndexError past the list's end.
summary_index_raises(len, matches, i_error) == matches[i_error + 1].sum_sent_index >= len

\* The message of lines 88-97 / 106-115, kept as its heading and the match it
\* describes.
message_of(heading, i_error) == [heading |-> heading, match |-> i_error]

\* DetectionResult.error_detected (detector.py lines 19-21).
error_detected(result_src_sent_indices) == Len(result_src_sent_indices) > 0

(***************************************************************************)
(* The variables of a call that is not running: each specification below   *)
(* runs one operation and leaves the variables of the others idle.         *)
(***************************************************************************)
IdleExtract ==
    /\ tree = NoTree
    /\ node_pair = NoPair
    /\ np_start_i = 0
    /\ pair_dicts = <<>>

IdleChain ==
    /\ chain_ids = <<>>
    /\ other_chain_ids = <<>>
    /\ i_chain = 0
    /\ chain_id_map = EmptyMap
    /\ error_indices = <<>>

IdleRepeat ==
    /\ calls = 0
    /\ inputs = <<>>
    /\ input = ""
    /\ results = <<>>

NoAnnotation == [sentence |-> <<>>]

IdleRun ==
    /\ summary_len = 0
    /\ src_annotation = NoAnnotation
    /\ sum_annotation = NoAnnotation
    /\ rouge_scores = <<>>
    /\ parse_tree_matches = <<>>
    /\ chain = 0
    /\ src_sum_error_indices = <<>>
    /\ sum_src_error_indices = <<>>
    /\ i_report = 0
    /\ src_sent_indices = <<>>
    /\ sum_sent_indices = <<>>
    /\ messages = <<>>
    /\ src_reassigned = FALSE
    /\ sum_reassigned = FALSE
    /\ example = None
    /\ coref_log = <<>>

(***************************************************************************)
(* check_chain_link_oneway, step by step, on bounded pairs of lists of the *)
(* same length (run_detection builds both from one list of matches).       *)
(***************************************************************************)
MaxLen == 3

SrcChainIds == {1, 2}
SumChainIds == {5, 6}

SeqsUpTo(S, n) == UNION {[1..k -> S] : k \in 0..n}

\* Lines 152-153, with the arguments in either order (lines 80 and 81).
InitChain ==
    /\ pc = "chain_loop"
    /\ \E A \in SeqsUpTo(SrcChainIds \cup {None}, MaxLen) :
       \E B \in [1..Len(A) -> SumChainIds \cup {None}] :
          \/ chain_ids = A /\ other_chain_ids = B
          \/ chain_ids = B /\ other_chain_ids = A
    /\ i_chain = 0
    /\ chain_id_map = EmptyMap
    /\ error_indices = <<>>
    /\ IdleExtract
    /\ IdleRun
    /\ IdleRepeat

\* Lines 154-162: one iteration of the loop.
ChainStep ==
    /\ pc = "chain_loop"
    /\ i_chain < Len(chain_ids)
    /\ LET st == chain_link_step(chain_ids, other_chain_ids, i_chain,
                                 [chain_id_map |-> chain_id_map,
                                  error_indices |-> error_indices])
       IN  /\ chain_id_map' = st.chain_id_map
           /\ error_indices' = st.error_indices
    /\ i_chain' = i_chain + 1
    /\ UNCHANGED <<pc, chain_ids, other_chain_ids, extract_vars, run_vars, obs_vars, repeat_vars>>

\* Line 163: the loop is over, error_indices is returned.
ChainReturn ==
    /\ pc = "chain_loop"
    /\ i_chain >= Len(chain_ids)
    /\ pc' = "chain_done"
    /\ UNCHANGED <<chain_vars, extract_vars, run_vars, obs_vars, repeat_vars>>

NextChain == ChainStep \/ ChainReturn

SpecChain == InitChain /\ [][NextChain]_vars

(***************************************************************************)
(* recursive_np_vp_search, step by step.                                   *)
(***************************************************************************)
\* Line 289: the first search, from the node given.
ExtractSearch ==
    /\ pc = "extract_start"
    /\ LET r == _recursive_np_vp_search(tree, 1, 0)
       IN  /\ node_pair' = r.node_pair
           /\ np_start_i' = r.start_i
    /\ pair_dicts' = <<>>
    /\ pc' = "extract_loop"
    /\ UNCHANGED <<tree, chain_vars, run_vars, obs_vars, repeat_vars>>

\* One iteration of the while loop with the next search started at the
\* sentence node again instead of at the predicate just found.
ExtractPair_from_sentence ==
    /\ pc = "extract_loop"
    /\ node_pair # NoPair
    /\ LET d == new_pair_dict(tree, node_pair, np_start_i)
           r == _recursive_np_vp_search(tree, 1, 0)
       IN  /\ pair_dicts' = Append(pair_dicts, d)
           /\ node_pair' = r.node_pair
           /\ np_start_i' = r.start_i
    /\ UNCHANGED <<pc, tree, chain_vars, run_vars, obs_vars, repeat_vars>>

\* Lines 292-298: one iteration of the while loop.
ExtractPair ==
    /\ pc = "extract_loop"
    /\ node_pair # NoPair
    /\ LET d == new_pair_dict(tree, node_pair, np_start_i)
           r == _recursive_np_vp_search(tree, d.VP, d.VP_start_i)
       IN  /\ pair_dicts' = Append(pair_dicts, d)
           /\ node_pair' = r.node_pair
           /\ np_start_i' = r.start_i
    /\ UNCHANGED <<pc, tree, chain_vars, run_vars, obs_vars, repeat_vars>>

\* Lines 300-304: the loop is left, the VP fields are added, the list returned.
ExtractReturn ==
    /\ pc = "extract_loop"
    /\ node_pair = NoPair
    /\ pair_dicts' = fill_vp(tree, pair_dicts)
    /\ pc' = "extract_done"
    /\ UNCHANGED <<tree, node_pair, np_start_i, chain_vars, run_vars, obs_vars, repeat_vars>>

InitExtract ==
    /\ pc = "extract_start"
    /\ tree \in Trees
    /\ node_pair = NoPair
    /\ np_start_i = 0
    /\ pair_dicts = <<>>
    /\ IdleChain
    /\ IdleRun
    /\ IdleRepeat

NextExtract == ExtractSearch \/ ExtractPair \/ ExtractReturn

SpecExtract == InitExtract /\ [][NextExtract]_vars

\* The call keeps running: a statement that can execute does execute.
SpecExtractLive == SpecExtract /\ WF_vars(NextExtract)

(***************************************************************************)
(* run_detection, step by step.  The documents are the provider's          *)
(* sentence lists below; the Rouge scores and the coreference mentions     *)
(* are read from the libraries when the code reads them.                   *)
(***************************************************************************)
Docs ==
    { <<>>, <<"fragment">>, <<"clause">>, <<"clause", "clause">>,
      <<"clause", "advclause">>, <<"clause", "clause", "clause">> }

\* Source documents of the general runs: up to two sentences.
SrcDocs == {d \in Docs : Len(d) <= 2}

\* The caller's list has as many elements as the provider finds sentences in
\* the joined text, or one fewer (an element holding two sentences).
SummaryLens(doc) == {n \in {Len(doc) - 1, Len(doc)} : n >= 0}

\* The docstring example of run_detection (lines 21-24), as the inputs the
\* run consumes: both texts are a clause followed by an adverb-led clause;
\* the source has George and Michael in two chains, the summary has George
\* and he in one; the subject of the second sentence starts at token 2.
ExampleDoc == <<"clause", "advclause">>
ExampleMentions ==
    <<[chainID |-> 1, sentNum |-> 0, startIndex |-> 0],
      [chainID |-> 2, sentNum |-> 1, startIndex |-> 2],
      [chainID |-> 1, sentNum |-> 0, startIndex |-> 0],
      [chainID |-> 1, sentNum |-> 1, startIndex |-> 2]>>
ExampleAligned(matches) ==
    /\ Len(matches) = 2
    /\ \A k \in 1..2 : matches[k].src_sent_index = k - 1 /\ matches[k].sum_sent_index = k - 1

\* The observer `example` after a mention is read at position `at` (1..4 of
\* ExampleMentions are read at example = 1..4).
example_after_mention(ex, lo, hi, chainID, sentNum, startIndex) ==
    IF /\ ex >= lo
       /\ ex <= hi
       /\ ExampleMentions[ex] = [chainID |-> chainID, sentNum |-> sentNum,
                                 startIndex |-> startIndex]
    THEN ex + 1
    ELSE None

InitRun(start, pairs) ==
    /\ pc = start
    /\ \E p \in pairs :
       LET src == p[1]
           sum == p[2]
       IN /\ src_annotation = [sentence |-> src]
          /\ sum_annotation = [sentence |-> sum]
          /\ summary_len \in SummaryLens(sum)
          /\ example = IF src = ExampleDoc /\ sum = ExampleDoc /\ summary_len = 2
                       THEN 0 ELSE None
    /\ rouge_scores = <<>>
    /\ parse_tree_matches = <<>>
    /\ chain = 0
    /\ src_sum_error_indices = <<>>
    /\ sum_src_error_indices = <<>>
    /\ i_report = 0
    /\ src_sent_indices = <<>>
    /\ sum_sent_indices = <<>>
    /\ messages = <<>>
    /\ src_reassigned = FALSE
    /\ sum_reassigned = FALSE
    /\ coref_log = <<>>
    /\ IdleExtract
    /\ IdleChain
    /\ IdleRepeat

Init == InitRun("start", SrcDocs \X Docs)

\* Lines 38-46: the annotations are in, match_np_bo_vp runs to its end on
\* the scores Rouge returns (or np.argmax raises).
AlignWith(scores, src, sum) ==
    /\ parse_tree_matches' = match_np_bo_vp(src, sum, scores)
    /\ pc' = "src_chains"
    /\ example' = IF example = 0 /\ ExampleAligned(parse_tree_matches') THEN 1 ELSE None

AlignRaises ==
    /\ pc' = "raised"
    /\ example' = None
    /\ UNCHANGED parse_tree_matches

Align ==
    /\ pc = "start"
    /\ LET src == collect_phrases(src_annotation.sentence, 1, <<>>, <<>>)
           sum == collect_phrases(sum_annotation.sentence, 1, <<>>, <<>>)
       IN  IF argmax_raises(src)
           THEN AlignRaises
           ELSE \E scores \in ScoreMatrices(Len(src.phrases), Len(sum.phrases)) :
                    AlignWith(scores, src, sum)
    /\ UNCHANGED <<summary_len, src_annotation, sum_annotation, rouge_scores, chain,
                   src_sum_error_indices, sum_src_error_indices, i_report,
                   src_sent_indices, sum_sent_indices, messages,
                   src_reassigned, sum_reassigned, coref_log,
                   extract_vars, chain_vars, repeat_vars>>

\* Some match the mention addresses already has its source chain id set.
src_hit_again(matches, sentNum, startIndex) ==
    \E k \in 1..Len(matches) :
        /\ sentNum = matches[k].src_sent_index
        /\ startIndex = matches[k].src_phrase.NP_start_i
        /\ matches[k].src_chain_id # None

sum_hit_again(matches, sentNum, startIndex) ==
    \E k \in 1..Len(matches) :
        /\ sentNum = matches[k].sum_sent_index
        /\ startIndex = matches[k].sum_phrase.NP_start_i
        /\ matches[k].sum_chain_id # None

\* Lines 49-57 for the next mention of src_annotation.corefChain: a mention
\* of the current chain or of a later one (chains are numbered in the order
\* the provider lists them).
SrcMentionOf(chainID, sentNum, startIndex) ==
    /\ pc = "src_chains"
    /\ chainID >= chain
    /\ chain' = chainID
    /\ parse_tree_matches' = couple_src(parse_tree_matches, chainID, sentNum, startIndex)
    /\ src_reassigned' = (src_reassigned \/ src_hit_again(parse_tree_matches, sentNum, startIndex))
    /\ example' = example_after_mention(example, 1, 2, chainID, sentNum, startIndex)
    /\ UNCHANGED <<pc, summary_len, src_annotation, sum_annotation, rouge_scores,
                   src_sum_error_indices, sum_src_error_indices, i_report,
                   src_sent_indices, sum_sent_indices, messages,
                   sum_reassigned, extract_vars, chain_vars, repeat_vars>>

SrcMention ==
    /\ \E chainID \in ChainIds, startIndex \in StartIndices :
       \E sentNum \in 0..(Len(src_annotation.sentence) - 1) :
            SrcMentionOf(chainID, sentNum, startIndex)
    /\ UNCHANGED coref_log

\* The loop of line 49 is over.
SrcChainsDone ==
    /\ pc = "src_chains"
    /\ pc' = "sum_chains"
    /\ chain' = 0
    /\ example' = IF example = 3 THEN 3 ELSE None
    /\ UNCHANGED <<summary_len, src_annotation, sum_annotation, rouge_scores,
                   parse_tree_matches, src_sum_error_indices, sum_src_error_indices,
                   i_report, src_sent_indices, sum_sent_indices, messages,
                   src_reassigned, sum_reassigned, coref_log, extract_vars, chain_vars, repeat_vars>>

\* Lines 60-68 for the next mention of sum_annotation.corefChain.
SumMentionOf(chainID, sentNum, startIndex) ==
    /\ pc = "sum_chains"
    /\ chainID >= chain
    /\ chain' = chainID
    /\ parse_tree_matches' = couple_sum(parse_tree_matches, chainID, sentNum, startIndex)
    /\ sum_reassigned' = (sum_reassigned \/ sum_hit_again(parse_tree_matches, sentNum, startIndex))
    /\ example' = example_after_mention(example, 3, 4, chainID, sentNum, startIndex)
    /\ UNCHANGED <<pc, summary_len, src_annotation, sum_annotation, rouge_scores,
                   src_sum_error_indices, sum_src_error_indices, i_report,
                   src_sent_indices, sum_sent_indices, messages,
                   src_reassigned, extract_vars, chain_vars, repeat_vars>>

SumMention ==
    /\ \E chainID \in ChainIds, startIndex \in StartIndices :
       \E sentNum \in 0..(Len(sum_annotation.sentence) - 1) :
            SumMentionOf(chainID, sentNum, startIndex)
    /\ UNCHANGED coref_log

\* The loop of line 60 is over.
SumChainsDone ==
    /\ pc = "sum_chains"
    /\ pc' = "check"
    /\ chain' = 0
    /\ example' = IF example = 5 THEN 5 ELSE None
    /\ UNCHANGED <<summary_len, src_annotation, sum_annotation, rouge_scores,
                   parse_tree_matches, src_sum_error_indices, sum_src_error_indices,
                   i_report, src_sent_indices, sum_sent_indices, messages,
                   src_reassigned, sum_reassigned, coref_log, extract_vars, chain_vars, repeat_vars>>

\* The checks of lines 80-81 with the three result lists kept from the
\* previous call instead of created empty (lists held by the detector).
Check_lists_kept ==
    /\ pc = "check"
    /\ LET src_chain_ids == src_ids_of(parse_tree_matches)
           sum_chain_ids == sum_ids_of(parse_tree_matches)
       IN  /\ src_sum_error_indices' = check_chain_link_oneway(src_chain_ids, sum_chain_ids)
           /\ sum_src_error_indices' = check_chain_link_oneway(sum_chain_ids, src_chain_ids)
    /\ i_report' = 0
    /\ pc' = "report_src_sum"
    /\ UNCHANGED <<summary_len, src_annotation, sum_annotation, rouge_scores,
                   parse_tree_matches, chain, src_sent_indices, sum_sent_indices,
                   messages, obs_vars, extract_vars, chain_vars, repeat_vars>>

\* Lines 70-86: the id lists, the two checks, the empty result lists.
Check ==
    /\ pc = "check"
    /\ LET src_chain_ids == src_ids_of(parse_tree_matches)
           sum_chain_ids == sum_ids_of(parse_tree_matches)
       IN  /\ src_sum_error_indices' = check_chain_link_oneway(src_chain_ids, sum_chain_ids)
           /\ sum_src_error_indices' = check_chain_link_oneway(sum_chain_ids, src_chain_ids)
    /\ src_sent_indices' = <<>>
    /\ sum_sent_indices' = <<>>
    /\ messages' = <<>>
    /\ i_report' = 0
    /\ pc' = "report_src_sum"
    /\ UNCHANGED <<summary_len, src_annotation, sum_annotation, rouge_scores,
                   parse_tree_matches, chain, obs_vars, extract_vars, chain_vars, repeat_vars>>

\* The report step skipping an error index whose sentence pair is already in
\* the result lists (findings deduplicated).
report_dedup(heading, i_error) ==
    IF summary_index_raises(summary_len, parse_tree_matches, i_error)
    THEN /\ pc' = "raised"
         /\ UNCHANGED <<src_sent_indices, sum_sent_indices, messages, i_report>>
    ELSE /\ IF \E k \in 1..Len(messages) : messages[k].match = i_error
            THEN UNCHANGED <<src_sent_indices, sum_sent_indices, messages>>
            ELSE /\ src_sent_indices' =
                        Append(src_sent_indices, parse_tree_matches[i_error + 1].src_sent_index)
                 /\ sum_sent_indices' =
                        Append(sum_sent_indices, parse_tree_matches[i_error + 1].sum_sent_index)
                 /\ messages' = Append(messages, message_of(heading, i_error))
         /\ i_report' = i_report + 1
         /\ UNCHANGED pc

\* Lines 88-101 / 106-119 for error index i_error: the message is built
\* (summary[...] may raise) and the three lists are appended to.
report(heading, i_error) ==
    IF summary_index_raises(summary_len, parse_tree_matches, i_error)
    THEN /\ pc' = "raised"
         /\ UNCHANGED <<src_sent_indices, sum_sent_indices, messages, i_report>>
    ELSE /\ src_sent_indices' =
                Append(src_sent_indices, parse_tree_matches[i_error + 1].src_sent_index)
         /\ sum_sent_indices' =
                Append(sum_sent_indices, parse_tree_matches[i_error + 1].sum_sent_index)
         /\ messages' = Append(messages, message_of(heading, i_error))
         /\ i_report' = i_report + 1
         /\ UNCHANGED pc

\* One iteration of the loop of line 87.
ReportSrcSum ==
    /\ pc = "report_src_sum"
    /\ i_report < Len(src_sum_error_indices)
    /\ report("Summary coreference chain differs where source chain is equal",
              src_sum_error_indices[i_report + 1])
    /\ UNCHANGED <<summary_len, src_annotation, sum_annotation, rouge_scores,
                   parse_tree_matches, chain, src_sum_error_indices,
                   sum_src_error_indices, obs_vars, extract_vars, chain_vars, repeat_vars>>

\* The loop of line 87 is over.
ReportSrcSumDone ==
    /\ pc = "report_src_sum"
    /\ i_report >= Len(src_sum_error_indices)
    /\ pc' = "report_sum_src"
    /\ i_report' = 0
    /\ UNCHANGED <<summary_len, src_annotation, sum_annotation, rouge_scores,
                   parse_tree_matches, chain, src_sum_error_indices,
                   sum_src_error_indices, src_sent_indices, sum_sent_indices,
                   messages, obs_vars, extract_vars, chain_vars, repeat_vars>>

\* One iteration of the loop of line 105.
ReportSumSrc ==
    /\ pc = "report_sum_src"
    /\ i_report < Len(sum_src_error_indices)
    /\ report("Source coreference chain differs where summary chain is equal",
              sum_src_error_indices[i_report + 1])
    /\ UNCHANGED <<summary_len, src_annotation, sum_annotation, rouge_scores,
                   parse_tree_matches, chain, src_sum_error_indices,
                   sum_src_error_indices, obs_vars, extract_vars, chain_vars, repeat_vars>>

\* Lines 123-128: the DetectionResult is built from the three lists and returned.
Return ==
    /\ pc = "report_sum_src"
    /\ i_report >= Len(sum_src_error_indices)
    /\ pc' = "done"
    /\ UNCHANGED <<run_vars, obs_vars, extract_vars, chain_vars, repeat_vars>>

Next ==
    \/ Align
    \/ SrcMention
    \/ SrcChainsDone
    \/ SumMention
    \/ SumChainsDone
    \/ Check
    \/ ReportSrcSum
    \/ ReportSrcSumDone
    \/ ReportSumSrc
    \/ Return

Spec == Init /\ [][Next]_vars

(***************************************************************************)
(* match_np_bo_vp on its own, step by step, its locals kept in view.       *)
(***************************************************************************)
InitAlign == InitRun("align_start", Docs \X Docs)

\* Lines 179-204: the phrases are collected and rouge_scores is filled.
AlignScores ==
    /\ pc = "align_start"
    /\ LET src == collect_phrases(src_annotation.sentence, 1, <<>>, <<>>)
           sum == collect_phrases(sum_annotation.sentence, 1, <<>>, <<>>)
       IN  rouge_scores' \in ScoreMatrices(Len(src.phrases), Len(sum.phrases))
    /\ pc' = "align_scored"
    /\ UNCHANGED <<summary_len, src_annotation, sum_annotation, parse_tree_matches,
                   chain, src_sum_error_indices, sum_src_error_indices, i_report,
                   src_sent_indices, sum_sent_indices, messages,
                   obs_vars, extract_vars, chain_vars, repeat_vars>>

\* Lines 206-213: the best rows are taken and the matches are built.
AlignMatch ==
    /\ pc = "align_scored"
    /\ LET src == collect_phrases(src_annotation.sentence, 1, <<>>, <<>>)
           sum == collect_phrases(sum_annotation.sentence, 1, <<>>, <<>>)
       IN  IF argmax_raises(src)
           THEN pc' = "raised" /\ UNCHANGED parse_tree_matches
           ELSE /\ parse_tree_matches' = match_np_bo_vp(src, sum, rouge_scores)
                /\ pc' = "align_done"
    /\ UNCHANGED <<summary_len, src_annotation, sum_annotation, rouge_scores,
                   chain, src_sum_error_indices, sum_src_error_indices, i_report,
                   src_sent_indices, sum_sent_indices, messages,
                   obs_vars, extract_vars, chain_vars, repeat_vars>>

NextAlign == AlignScores \/ AlignMatch

SpecAlign == InitAlign /\ [][NextAlign]_vars

(***************************************************************************)
(* run_detection on a text used as both source and summary: both           *)
(* annotations carry the same sentences, trees and coreference chains.     *)
(* coref_log holds the mentions the source loop has read; the summary loop *)
(* reads the same mentions in the same order.                              *)
(***************************************************************************)
MaxMentions == 3

\* Scores of a text against itself: the score of two predicates does not
\* depend on which side each is on, and a predicate scores 1.0 with itself.
SameTextScores(n) ==
    {sc \in ScoreMatrices(n, n) :
        /\ \A r \in 1..n : sc[r][r] = 100
        /\ \A r \in 1..n, c \in 1..n : sc[r][c] = sc[c][r]}

InitSame == InitRun("start", {<<d, d>> : d \in Docs})

AlignSame ==
    /\ pc = "start"
    /\ LET src == collect_phrases(src_annotation.sentence, 1, <<>>, <<>>)
           sum == collect_phrases(sum_annotation.sentence, 1, <<>>, <<>>)
       IN  IF argmax_raises(src)
           THEN AlignRaises
           ELSE \E scores \in SameTextScores(Len(src.phrases)) :
                    AlignWith(scores, src, sum)
    /\ UNCHANGED <<summary_len, src_annotation, sum_annotation, rouge_scores, chain,
                   src_sum_error_indices, sum_src_error_indices, i_report,
                   src_sent_indices, sum_sent_indices, messages,
                   src_reassigned, sum_reassigned, coref_log,
                   extract_vars, chain_vars, repeat_vars>>

SrcMentionSame ==
    /\ Len(coref_log) < MaxMentions
    /\ \E chainID \in ChainIds, startIndex \in StartIndices :
       \E sentNum \in 0..(Len(src_annotation.sentence) - 1) :
            /\ SrcMentionOf(chainID, sentNum, startIndex)
            /\ coref_log' = Append(coref_log, [chainID |-> chainID, sentNum |-> sentNum,
                                               startIndex |-> startIndex])

SumMentionSame ==
    /\ coref_log # <<>>
    /\ SumMentionOf(Head(coref_log).chainID, Head(coref_log).sentNum,
                    Head(coref_log).startIndex)
    /\ coref_log' = Tail(coref_log)

SumChainsDoneSame ==
    /\ coref_log = <<>>
    /\ SumChainsDone

NextSame ==
    \/ AlignSame
    \/ SrcMentionSame
    \/ SrcChainsDone
    \/ SumMentionSame
    \/ SumChainsDoneSame
    \/ Check
    \/ ReportSrcSum
    \/ ReportSrcSumDone
    \/ ReportSumSrc
    \/ Return

SpecSame == InitSame /\ [][NextSame]_vars

(***************************************************************************)
(* One detector called several times: run_detection on two inputs X and Y  *)
(* in any order, and check_chain_link_oneway on the caller's two lists.    *)
(* The annotation provider and Rouge are fixed: `inputs` holds, for each   *)
(* input, the sentences, scores and coreference mentions they return for   *)
(* it.  A call starts with whatever the previous call left in the          *)
(* variables; only what the code initialises is initialised.               *)
(***************************************************************************)
MaxCalls == 3

InputNames == {"X", "Y"}

RepeatDoc == <<"clause", "clause">>

Mention(chainID, sentNum, startIndex) ==
    [chainID |-> chainID, sentNum |-> sentNum, startIndex |-> startIndex]

\* Mention lists of up to n mentions, chains in the provider's order.
OrderedMentions(n) ==
    {m \in SeqsUpTo({Mention(c, sn, 0) : c \in ChainIds, sn \in {0, 1}}, n) :
        \A k \in 1..(Len(m) - 1) : m[k].chainID <= m[k + 1].chainID}

\* An input whose source has no phrase pair.
FragmentInput ==
    [src |-> <<"fragment">>, sum |-> <<"clause">>, summary_len |-> 1, scores |-> <<>>,
     src_mentions |-> <<>>, sum_mentions |-> <<>>]

\* An input with a finding in each direction: three clauses on each side,
\* summary sentences 0 and 1 aligned to source sentence 0 and summary
\* sentence 2 to source sentence 1; source ids [1, 1, 2], summary ids
\* [1, 2, 1].
FindingInput ==
    [src |-> <<"clause", "clause", "clause">>, sum |-> <<"clause", "clause", "clause">>,
     summary_len |-> 3,
     scores |-> <<(<<100, 100, 19>>), (<<19, 19, 100>>), (<<19, 19, 19>>)>>,
     src_mentions |-> <<Mention(1, 0, 0), Mention(2, 1, 0)>>,
     sum_mentions |-> <<Mention(1, 0, 0), Mention(1, 2, 0), Mention(2, 1, 0)>>]

\* The inputs X may be: two clauses on each side, every score below the
\* threshold or 1.0, up to one source mention and two summary mentions.
XInputs ==
    [src : {RepeatDoc}, sum : {RepeatDoc}, summary_len : {1, 2},
     scores : {sc \in ScoreMatrices(2, 2) : \A r \in 1..2, c \in 1..2 : sc[r][c] # min_match_score},
     src_mentions : OrderedMentions(1), sum_mentions : OrderedMentions(2)]

YInputs == {FragmentInput, FindingInput}

NoLists == [chain_ids |-> <<>>, other_chain_ids |-> <<>>]

InitRepeat ==
    /\ pc = "idle"
    /\ \/ \E x \in XInputs, y \in YInputs :
             inputs = [X |-> x, Y |-> y, chain |-> NoLists]
       \/ \E A \in SeqsUpTo(SrcChainIds \cup {None}, MaxLen) :
          \E B \in [1..Len(A) -> SumChainIds \cup {None}] :
             inputs = [X |-> FindingInput, Y |-> FragmentInput,
                       chain |-> [chain_ids |-> A, other_chain_ids |-> B]]
    /\ chain_ids = inputs.chain.chain_ids
    /\ other_chain_ids = inputs.chain.other_chain_ids
    /\ i_chain = 0
    /\ chain_id_map = EmptyMap
    /\ error_indices = <<>>
    /\ calls = 0
    /\ input = ""
    /\ results = [X |-> <<>>, Y |-> <<>>, chain |-> <<>>]
    /\ IdleExtract
    /\ IdleRun

\* The aligned pair a message of this call is formatted from.
MatchOfMessage(message) ==
    IF message.match + 1 \in DOMAIN parse_tree_matches
    THEN parse_tree_matches[message.match + 1]
    ELSE [no_match |-> message.match]

\* What a completed call of run_detection gave its caller: the exception, or
\* the three lists of the DetectionResult (a message is its heading and the
\* aligned pair it is formatted from).
RunOutcome ==
    IF pc = "raised"
    THEN [outcome |-> "raised", src_sent_indices |-> <<>>, sum_sent_indices |-> <<>>,
          messages |-> <<>>]
    ELSE [outcome |-> "returned", src_sent_indices |-> src_sent_indices,
          sum_sent_indices |-> sum_sent_indices,
          messages |-> [k \in 1..Len(messages) |->
                            [heading |-> messages[k].heading,
                             match |-> MatchOfMessage(messages[k])]]]

\* What a completed call of check_chain_link_oneway returned.
ChainOutcome == [error_indices |-> error_indices]

\* `results` once the call just completed (if any) is noted.
results_after_call ==
    IF pc \in {"done", "raised"} /\ results[input] = <<>>
    THEN [results EXCEPT ![input] = <<RunOutcome>>]
    ELSE IF pc = "chain_done" /\ results.chain = <<>>
         THEN [results EXCEPT !.chain = <<ChainOutcome>>]
         ELSE results

BetweenCalls == pc \in {"idle", "done", "raised", "chain_done"}

\* run_detection is called on input x (line 16): the parameters are bound.
CallRunDetection ==
    /\ BetweenCalls
    /\ calls < MaxCalls
    /\ \E x \in InputNames :
          /\ input' = x
          /\ src_annotation' = [sentence |-> inputs[x].src]
          /\ sum_annotation' = [sentence |-> inputs[x].sum]
          /\ summary_len' = inputs[x].summary_len
    /\ pc' = "start"
    /\ calls' = calls + 1
    /\ results' = results_after_call
    /\ UNCHANGED <<inputs, rouge_scores, parse_tree_matches, chain,
                   src_sum_error_indices, sum_src_error_indices, i_report,
                   src_sent_indices, sum_sent_indices, messages,
                   obs_vars, extract_vars, chain_vars>>

\* Lines 38-46 with the provider's answers for the current input.
AlignRepeat ==
    /\ pc = "start"
    /\ LET src == collect_phrases(src_annotation.sentence, 1, <<>>, <<>>)
           sum == collect_phrases(sum_annotation.sentence, 1, <<>>, <<>>)
       IN  IF argmax_raises(src)
           THEN AlignRaises /\ UNCHANGED coref_log
           ELSE /\ AlignWith(inputs[input].scores, src, sum)
                /\ coref_log' = inputs[input].src_mentions \o inputs[input].sum_mentions
    /\ UNCHANGED <<summary_len, src_annotation, sum_annotation, rouge_scores, chain,
                   src_sum_error_indices, sum_src_error_indices, i_report,
                   src_sent_indices, sum_sent_indices, messages,
                   src_reassigned, sum_reassigned,
                   extract_vars, chain_vars, repeat_vars>>

\* Lines 49-57 for the next source mention of the current input.
SrcMentionRepeat ==
    /\ pc = "src_chains"
    /\ Len(coref_log) > Len(inputs[input].sum_mentions)
    /\ SrcMentionOf(Head(coref_log).chainID, Head(coref_log).sentNum,
                    Head(coref_log).startIndex)
    /\ coref_log' = Tail(coref_log)

SrcChainsDoneRepeat ==
    /\ pc = "src_chains"
    /\ Len(coref_log) = Len(inputs[input].sum_mentions)
    /\ SrcChainsDone

\* check_chain_link_oneway is called on the caller's two lists (lines 152-153),
\* by a caller that has lists to check.
CallCheckChainLink ==
    /\ BetweenCalls
    /\ inputs.chain # NoLists
    /\ calls < MaxCalls
    /\ pc' = "chain_loop"
    /\ i_chain' = 0
    /\ chain_id_map' = EmptyMap
    /\ error_indices' = <<>>
    /\ calls' = calls + 1
    /\ results' = results_after_call
    /\ UNCHANGED <<chain_ids, other_chain_ids, inputs, input,
                   run_vars, obs_vars, extract_vars>>

NextRepeat ==
    \/ CallRunDetection
    \/ AlignRepeat
    \/ SrcMentionRepeat
    \/ SrcChainsDoneRepeat
    \/ SumMentionSame
    \/ SumChainsDoneSame
    \/ Check
    \/ ReportSrcSum
    \/ ReportSrcSumDone
    \/ ReportSumSrc
    \/ Return
    \/ CallCheckChainLink
    \/ ChainStep
    \/ ChainReturn

SpecRepeat == InitRepeat /\ [][NextRepeat]_vars

(***************************************************************************)
(* Properties.                                                             *)
(***************************************************************************)
SrcPhrases == collect_phrases(src_annotation.sentence, 1, <<>>, <<>>)
SumPhrases == collect_phrases(sum_annotation.sentence, 1, <<>>, <<>>)
NoFindings == src_sent_indices = <<>> /\ sum_sent_indices = <<>> /\ messages = <<>>

\* C1 (SpecSame): a text used as both source and summary yields zero
\* findings: neither direction of check_chain_link_oneway produces an error
\* index and the returned result is empty.
C1_SameTextNoFindings ==
    /\ src_sum_error_indices = <<>>
    /\ sum_src_error_indices = <<>>
    /\ (pc = "done" => NoFindings)

\* C2 (Spec): the run on the docstring example (George / Michael / he, the
\* subject of the second sentence at token 2, sentences aligned 0-0 and 1-1)
\* returns exactly one finding, for the second sentences.
C2_ExampleOneFinding ==
    (example = 5 /\ pc \in {"done", "raised"}) =>
        /\ pc = "done"
        /\ src_sent_indices = <<1>>
        /\ sum_sent_indices = <<1>>
        /\ Len(messages) = 1

\* C5 (Spec): when the source, the summary or both have no phrase pair at
\* all, run_detection does not raise and returns zero findings.
C5_EmptyPhrasesNoFindings ==
    (Len(SrcPhrases.phrases) = 0 \/ Len(SumPhrases.phrases) = 0) =>
        /\ pc # "raised"
        /\ (pc = "done" => NoFindings)

\* C6 (Spec): during chain annotation no aligned pair has its source chain
\* id assigned a second time, nor its summary chain id.
C6_ChainIdAssignedOnce == ~src_reassigned /\ ~sum_reassigned

\* The positions (1-based) of two id lists where both ids are set.
BothSet(A, B) == {q \in 1..Len(A) : A[q] # None /\ B[q] # None}

\* C3 (SpecChain): with A = [1,1,2] and B = [5,6,5], check(A, B) returns [1]
\* and check(B, A) returns [2].
C3_Directional ==
    pc = "chain_done" =>
        /\ (chain_ids = <<1, 1, 2>> /\ other_chain_ids = <<5, 6, 5>>
                => error_indices = <<1>>)
        /\ (chain_ids = <<5, 6, 5>> /\ other_chain_ids = <<1, 1, 2>>
                => error_indices = <<2>>)

C3_Witness ==
    /\ pc = "chain_done"
    /\ chain_ids = <<5, 6, 5>>
    /\ other_chain_ids = <<1, 1, 2>>
    /\ error_indices = <<2>>

\* C7 (SpecChain): positions with an unset id on either side are never
\* flagged and never enter the link map, and the flagged aligned pairs are
\* the same as those of the scan of the two lists with these positions removed.
C7_UnsetSkipped ==
    /\ None \notin DOMAIN chain_id_map
    /\ \A a \in DOMAIN chain_id_map : chain_id_map[a] # None
    /\ \A k \in 1..Len(error_indices) : error_indices[k] + 1 \in BothSet(chain_ids, other_chain_ids)
    /\ pc = "chain_done" =>
          LET kept == SortedSeq(BothSet(chain_ids, other_chain_ids))
              A == [k \in 1..Len(kept) |-> chain_ids[kept[k]]]
              B == [k \in 1..Len(kept) |-> other_chain_ids[kept[k]]]
              E == check_chain_link_oneway(A, B)
          IN  {error_indices[k] + 1 : k \in 1..Len(error_indices)}
                = {kept[E[k] + 1] : k \in 1..Len(E)}

\* A flagged position preceded by a position with the same id whose partner
\* is unset.
C7_Witness ==
    /\ pc = "chain_done"
    /\ \E k \in 1..Len(error_indices) :
       \E q \in 1..error_indices[k] :
            /\ chain_ids[q] = chain_ids[error_indices[k] + 1]
            /\ other_chain_ids[q] = None

\* The maximum of column j of rouge_scores.
ColumnMax(j) == Max({rouge_scores[r][j] : r \in 1..Len(rouge_scores)})

\* Summary phrase j (1-based) has an aligned pair in parse_tree_matches.
Emitted(j) ==
    \E k \in 1..Len(parse_tree_matches) :
        /\ parse_tree_matches[k].sum_sent_index = SumPhrases.sent_ids[j]
        /\ parse_tree_matches[k].sum_phrase = SumPhrases.phrases[j]

\* C4 (SpecAlign): with at least one source phrase, a summary phrase is
\* emitted iff the maximum of its column is >= min_match_score, and every
\* emitted pair carries a score >= min_match_score.
C4_Threshold ==
    (pc = "align_done" /\ Len(SrcPhrases.phrases) >= 1) =>
        /\ \A j \in 1..Len(SumPhrases.phrases) :
              Emitted(j) <=> ColumnMax(j) >= min_match_score
        /\ \A k \in 1..Len(parse_tree_matches) :
              parse_tree_matches[k].match_rouge_score >= min_match_score

\* One summary phrase retained with a best score of exactly the threshold,
\* another dropped.
C4_Witness ==
    /\ pc = "align_done"
    /\ \E j \in 1..Len(SumPhrases.phrases) :
          ColumnMax(j) = min_match_score /\ Emitted(j)
    /\ \E j \in 1..Len(SumPhrases.phrases) : ~Emitted(j)

\* The error indices of the two directions, from the matches as annotated.
E1 == check_chain_link_oneway(src_ids_of(parse_tree_matches), sum_ids_of(parse_tree_matches))
E2 == check_chain_link_oneway(sum_ids_of(parse_tree_matches), src_ids_of(parse_tree_matches))

\* C8 (Spec): the returned DetectionResult lists the violations of the first
\* direction in order, then those of the second, one entry per error index
\* (no deduplication), each with the sentence indices of its aligned pair;
\* error_detected() is true iff there is at least one.
C8_ResultIsBothDirections ==
    pc = "done" =>
        LET E == E1 \o E2
        IN  /\ Len(src_sent_indices) = Len(E1) + Len(E2)
            /\ Len(sum_sent_indices) = Len(E1) + Len(E2)
            /\ Len(messages) = Len(E1) + Len(E2)
            /\ \A k \in 1..Len(E) :
                  /\ src_sent_indices[k] = parse_tree_matches[E[k] + 1].src_sent_index
                  /\ sum_sent_indices[k] = parse_tree_matches[E[k] + 1].sum_sent_index
                  /\ messages[k].match = E[k]
                  /\ messages[k].heading =
                        IF k <= Len(E1)
                        THEN "Summary coreference chain differs where source chain is equal"
                        ELSE "Source coreference chain differs where summary chain is equal"
            /\ error_detected(src_sent_indices) <=> Len(E1) + Len(E2) > 0

\* A returned result in which one aligned pair is reported by both directions.
C8_Witness ==
    /\ pc = "done"
    /\ \E k1 \in 1..Len(E1), k2 \in 1..Len(E2) :
          /\ E1[k1] = E2[k2]
          /\ messages[k1].match = E1[k1]
          /\ messages[Len(E1) + k2].match = E1[k1]

\* C9 (SpecExtract): every phrase pair has VP_start_i = NP_end_i.
C9_Contiguity ==
    \A k \in 1..Len(pair_dicts) : pair_dicts[k].VP_start_i = pair_dicts[k].NP_end_i

\* A returned pair whose predicate child precedes its subject child.
C9_Witness ==
    /\ pc = "extract_done"
    /\ \E k \in 1..Len(pair_dicts) : pair_dicts[k].VP < pair_dicts[k].NP

\* C10 (SpecExtract): the returned list is empty iff no node of the tree has
\* both an NP child and a VP child.
C10_EmptyIffNoPair ==
    pc = "extract_done" =>
        (pair_dicts = <<>> <=> ~ \E n \in NodesOf(tree) : HasNpVpChildren(tree, n))

\* An empty result for a tree that has NP nodes and VP nodes, none of them
\* siblings.
C10_Witness ==
    /\ pc = "extract_done"
    /\ pair_dicts = <<>>
    /\ \E n \in NodesOf(tree) : tree.value[n] = "NP"
    /\ \E n \in NodesOf(tree) : tree.value[n] = "VP"

\* The lowest row of rouge_scores holding the maximum of column j.
LowestBestRow(j) ==
    CHOOSE r \in 1..Len(rouge_scores) :
        /\ rouge_scores[r][j] = ColumnMax(j)
        /\ \A k \in 1..(r - 1) : rouge_scores[k][j] # ColumnMax(j)

\* C11 (SpecAlign): the matches are, in summary phrase order, one per summary
\* phrase whose column maximum reaches the threshold, each with the
\* lowest-index source phrase that holds the maximum of that column (a
\* function of that column alone, so a source phrase may serve several
\* summary phrases).
C11_StableArgmax ==
    (pc = "align_done" /\ Len(SrcPhrases.phrases) >= 1) =>
        LET cols == SortedSeq({j \in 1..Len(SumPhrases.phrases) :
                                  ColumnMax(j) >= min_match_score})
        IN  /\ Len(parse_tree_matches) = Len(cols)
            /\ \A k \in 1..Len(cols) :
                  LET j == cols[k]
                      r == LowestBestRow(j)
                      m == parse_tree_matches[k]
                  IN  /\ m.src_sent_index = SrcPhrases.sent_ids[r]
                      /\ m.src_phrase = SrcPhrases.phrases[r]
                      /\ m.sum_sent_index = SumPhrases.sent_ids[j]
                      /\ m.sum_phrase = SumPhrases.phrases[j]
                      /\ m.match_rouge_score = ColumnMax(j)

\* Two summary phrases matched to the same source phrase, one of them on a
\* column whose maximum is held by that phrase and by a later one.
C11_Witness ==
    /\ pc = "align_done"
    /\ \E k1 \in 1..Len(parse_tree_matches), k2 \in 1..Len(parse_tree_matches) :
          /\ k1 < k2
          /\ parse_tree_matches[k1].src_sent_index = parse_tree_matches[k2].src_sent_index
          /\ parse_tree_matches[k1].sum_sent_index # parse_tree_matches[k2].sum_sent_index
          /\ \E r \in 1..Len(rouge_scores) :
                /\ SrcPhrases.sent_ids[r] > parse_tree_matches[k2].src_sent_index
                /\ rouge_scores[r][parse_tree_matches[k2].sum_sent_index + 1]
                      = parse_tree_matches[k2].match_rouge_score

\* C12 (SpecRepeat): a completed call of run_detection gives the outcome the
\* first completed call on the same input gave, whatever calls came in
\* between; a completed call of check_chain_link_oneway returns what its
\* first call returned; the caller's two lists are never changed.
C12_Deterministic ==
    /\ (pc \in {"done", "raised"} /\ results[input] # <<>>) =>
            RunOutcome = results[input][1]
    /\ (pc = "chain_done" /\ results.chain # <<>>) =>
            ChainOutcome = results.chain[1]
    /\ chain_ids = inputs.chain.chain_ids
    /\ other_chain_ids = inputs.chain.other_chain_ids

\* The third call returns: the second run on X, with findings, after a run
\* on Y whose outcome was another one.
C12_Witness ==
    /\ pc = "done"
    /\ calls = 3
    /\ input = "X"
    /\ results.X # <<>>
    /\ results.Y # <<>>
    /\ messages # <<>>
    /\ results.Y[1] # RunOutcome

RECURSIVE LeafCount(_, _)
\* The number of terminal tokens under node n (n itself when it is a leaf).
LeafCount(t, n) ==
    IF Len(t.child[n]) = 0
    THEN 1
    ELSE LET c == t.child[n]
             count[k \in 0..Len(c)] == IF k = 0 THEN 0 ELSE count[k - 1] + LeafCount(t, c[k])
         IN  count[Len(c)]

ParentOf(t, n) == CHOOSE q \in NodesOf(t) : \E k \in 1..Len(t.child[q]) : t.child[q][k] = n

RECURSIVE TokensBefore(_, _)
\* The number of terminal tokens of the sentence that precede node n.
TokensBefore(t, n) ==
    IF n = 1
    THEN 0
    ELSE LET q == ParentOf(t, n)
             c == t.child[q]
             before[k \in 0..Len(c)] ==
                 IF k = 0 THEN 0
                 ELSE before[k - 1] + (IF c[k] < n THEN LeafCount(t, c[k]) ELSE 0)
         IN  TokensBefore(t, q) + before[Len(c)]

\* C13 (SpecExtract): every returned phrase pair records the true token
\* spans of its nodes: each start index is the number of tokens preceding
\* the node in the sentence, each end index lies the node's leaf count
\* further.
C13_TrueSpans ==
    pc = "extract_done" =>
        \A k \in 1..Len(pair_dicts) :
            LET d == pair_dicts[k]
            IN  /\ d.NP_start_i = TokensBefore(tree, d.NP)
                /\ d.NP_end_i - d.NP_start_i = LeafCount(tree, d.NP)
                /\ d.VP_start_i = TokensBefore(tree, d.VP)
                /\ d.VP_end_i - d.VP_start_i = LeafCount(tree, d.VP)

Min(S) == CHOOSE x \in S : \A y \in S : x <= y

\* The positions (1-based) already scanned where both ids are set.
ScannedBothSet == {q \in BothSet(chain_ids, other_chain_ids) : q <= i_chain}

\* The first scanned both-set position holding id a.
FirstSeen(a) == Min({q \in ScannedBothSet : chain_ids[q] = a})

\* C14 (SpecChain): at every step of the scan the map holds, for each id
\* seen on a both-set position, the partner at its first such position
\* (so no recorded partner is ever replaced), and the error indices are
\* exactly the scanned both-set positions whose partner differs from that
\* first partner, in increasing order; a first occurrence is never among them.
C14_FirstSeenWins ==
    /\ DOMAIN chain_id_map = {chain_ids[q] : q \in ScannedBothSet}
    /\ \A a \in DOMAIN chain_id_map : chain_id_map[a] = other_chain_ids[FirstSeen(a)]
    /\ error_indices =
          SortedSeq({q - 1 : q \in {p \in ScannedBothSet :
                        /\ FirstSeen(chain_ids[p]) < p
                        /\ other_chain_ids[FirstSeen(chain_ids[p])] # other_chain_ids[p]}})
    /\ \A k \in 1..(Len(error_indices) - 1) : error_indices[k] < error_indices[k + 1]
    /\ \A k \in 1..Len(error_indices) :
          FirstSeen(chain_ids[error_indices[k] + 1]) # error_indices[k] + 1

\* A mismatch followed by a position that repeats the mismatching partner:
\* both are returned, the partner recorded first still stands.
C14_Witness ==
    /\ pc = "chain_done"
    /\ Len(chain_ids) = 3
    /\ chain_ids[1] = chain_ids[2]
    /\ chain_ids[2] = chain_ids[3]
    /\ other_chain_ids[2] = other_chain_ids[3]
    /\ error_indices = <<1, 2>>
    /\ chain_id_map[chain_ids[1]] = other_chain_ids[1]

RECURSIVE PreOrder(_, _)
\* The nodes of the subtree of n in pre-order (leftmost depth-first).
PreOrder(t, n) ==
    LET c == t.child[n]
        below[k \in 0..Len(c)] == IF k = 0 THEN <<>> ELSE below[k - 1] \o PreOrder(t, c[k])
    IN  <<n>> \o below[Len(c)]

\* The first node in pre-order from n with both an NP and a VP child, or 0.
FirstPairNode(t, n) ==
    LET po == PreOrder(t, n)
        hits == {k \in 1..Len(po) : HasNpVpChildren(t, po[k])}
    IN  IF hits = {} THEN 0 ELSE po[Min(hits)]

\* The node the next search starts at, given the pairs found so far.
SearchFrom(dicts) == IF dicts = <<>> THEN 1 ELSE dicts[Len(dicts)].VP

\* C15 (SpecExtract): the subject and predicate of the first pair are
\* children of the pre-order-first node, from the sentence node, that has an
\* NP and a VP child; those of each later pair are children of the
\* pre-order-first such node of the previous pair's VP subtree; the list
\* ends when that subtree has no such node.
C15_ExtractionOrder ==
    pc = "extract_done" =>
        /\ \A k \in 1..Len(pair_dicts) :
              LET n == FirstPairNode(tree, SearchFrom(SubSeq(pair_dicts, 1, k - 1)))
              IN  /\ n # 0
                  /\ ParentOf(tree, pair_dicts[k].NP) = n
                  /\ ParentOf(tree, pair_dicts[k].VP) = n
                  /\ tree.value[pair_dicts[k].NP] = "NP"
                  /\ tree.value[pair_dicts[k].VP] = "VP"
        /\ FirstPairNode(tree, SearchFrom(pair_dicts)) = 0

\* Two pairs returned, the second from under the predicate of the first.
C15_Witness ==
    /\ pc = "extract_done"
    /\ Len(pair_dicts) = 2
    /\ ParentOf(tree, pair_dicts[2].NP) = pair_dicts[1].VP

\* The mentions (positions in the list) that address the source side,
\* respectively the summary side, of match m.
SrcMentionsAt(mentions, m) ==
    {q \in 1..Len(mentions) : /\ mentions[q].sentNum = m.src_sent_index
                              /\ mentions[q].startIndex = m.src_phrase.NP_start_i}

SumMentionsAt(mentions, m) ==
    {q \in 1..Len(mentions) : /\ mentions[q].sentNum = m.sum_sent_index
                              /\ mentions[q].startIndex = m.sum_phrase.NP_start_i}

\* After both annotation loops: each side's id is unset, with its
\* representative, iff no mention of that side's chains has the pair's
\* address, and is otherwise the id of a chain with such a mention, the
\* representative being that chain's; equal addresses give equal ids.
AnnotatedByAddress ==
    pc = "check" =>
        \A k \in 1..Len(parse_tree_matches) :
            LET m == parse_tree_matches[k]
                src == inputs[input].src_mentions
                sum == inputs[input].sum_mentions
            IN  /\ IF SrcMentionsAt(src, m) = {}
                   THEN m.src_chain_id = None /\ m.src_chain_representative = "None"
                   ELSE /\ \E q \in SrcMentionsAt(src, m) : m.src_chain_id = src[q].chainID
                        /\ m.src_chain_representative = get_representative_string(m.src_chain_id)
                /\ IF SumMentionsAt(sum, m) = {}
                   THEN m.sum_chain_id = None /\ m.sum_chain_representative = "None"
                   ELSE /\ \E q \in SumMentionsAt(sum, m) : m.sum_chain_id = sum[q].chainID
                        /\ m.sum_chain_representative = get_representative_string(m.sum_chain_id)
                /\ \A k2 \in 1..Len(parse_tree_matches) :
                      LET m2 == parse_tree_matches[k2]
                      IN  /\ (/\ m2.src_sent_index = m.src_sent_index
                              /\ m2.src_phrase.NP_start_i = m.src_phrase.NP_start_i)
                                 => m2.src_chain_id = m.src_chain_id
                          /\ (/\ m2.sum_sent_index = m.sum_sent_index
                              /\ m2.sum_phrase.NP_start_i = m.sum_phrase.NP_start_i)
                                 => m2.sum_chain_id = m.sum_chain_id

\* A step of an annotation loop: the mention read is Head(coref_log).  It
\* raises nothing, leaves the other side's fields alone, and changes nothing
\* at all when no aligned pair has its address.
MentionStepLocal ==
    /\ (pc = "src_chains" /\ pc' = "src_chains") =>
          /\ Len(parse_tree_matches') = Len(parse_tree_matches)
          /\ \A k \in 1..Len(parse_tree_matches) :
                /\ parse_tree_matches'[k].sum_chain_id = parse_tree_matches[k].sum_chain_id
                /\ parse_tree_matches'[k].sum_chain_representative
                      = parse_tree_matches[k].sum_chain_representative
          /\ (\A k \in 1..Len(parse_tree_matches) :
                 SrcMentionsAt(<<Head(coref_log)>>, parse_tree_matches[k]) = {})
                => parse_tree_matches' = parse_tree_matches
    /\ (pc = "sum_chains" /\ pc' = "sum_chains") =>
          /\ Len(parse_tree_matches') = Len(parse_tree_matches)
          /\ \A k \in 1..Len(parse_tree_matches) :
                /\ parse_tree_matches'[k].src_chain_id = parse_tree_matches[k].src_chain_id
                /\ parse_tree_matches'[k].src_chain_representative
                      = parse_tree_matches[k].src_chain_representative
          /\ (\A k \in 1..Len(parse_tree_matches) :
                 SumMentionsAt(<<Head(coref_log)>>, parse_tree_matches[k]) = {})
                => parse_tree_matches' = parse_tree_matches
    /\ pc \in {"src_chains", "sum_chains"} => pc' # "raised"

\* C16 (SpecRepeat): after chain annotation each side's chain id of an
\* aligned pair is determined by the pair's address on that side and that
\* side's chains (unset iff no mention has the address, else the id of a
\* chain that has one, with its representative; same address, same id), and
\* a mention only touches its own side's fields of the pairs it addresses.
C16_AnnotationByAddress == [](AnnotatedByAddress) /\ [][MentionStepLocal]_vars

\* Annotation is over with one aligned pair whose source id is set and
\* whose summary id is unset, although the summary chains have a mention
\* (one that addresses no aligned pair).
C16_Witness ==
    /\ pc = "check"
    /\ Len(parse_tree_matches) = 1
    /\ parse_tree_matches[1].src_chain_id # None
    /\ parse_tree_matches[1].sum_chain_id = None
    /\ Len(inputs[input].sum_mentions) >= 1

\* On the positions where both ids are set, equal ids of A have equal
\* partners in B.
Functional(A, B) ==
    \A i \in BothSet(A, B), j \in BothSet(A, B) : A[i] = A[j] => B[i] = B[j]

\* C17 (Spec): each direction's error indices are empty iff the
\* correspondence is functional in that direction on the both-set aligned
\* pairs, and a returned result has no finding iff it is functional in both
\* directions (one-to-one).
C17_EmptyIffFunctional ==
    pc \in {"report_src_sum", "report_sum_src", "done"} =>
        LET A == src_ids_of(parse_tree_matches)
            B == sum_ids_of(parse_tree_matches)
        IN  /\ src_sum_error_indices = <<>> <=> Functional(A, B)
            /\ sum_src_error_indices = <<>> <=> Functional(B, A)
            /\ pc = "done" => (NoFindings <=> (Functional(A, B) /\ Functional(B, A)))

\* A returned result with findings although the first direction is
\* functional: two source ids share one summary id.
C17_Witness ==
    /\ pc = "done"
    /\ src_sum_error_indices = <<>>
    /\ messages # <<>>
    /\ Cardinality(BothSet(src_ids_of(parse_tree_matches), sum_ids_of(parse_tree_matches))) >= 2

\* C18 (Spec): every reported summary sentence index is an index into the
\* caller's summary list, and building a finding never raises by indexing
\* past the end of that list.
C18_SummaryIndexValid ==
    /\ \A k \in 1..Len(sum_sent_indices) : sum_sent_indices[k] < summary_len
    /\ ~(pc = "raised" /\ parse_tree_matches # <<>>)

RECURSIVE Height(_, _)
\* The number of levels below node n (0 for a leaf).
Height(t, n) ==
    IF Len(t.child[n]) = 0
    THEN 0
    ELSE 1 + Max({Height(t, t.child[n][k]) : k \in 1..Len(t.child[n])})

\* The nodes strictly inside the subtree of n.
ProperDescendants(t, n) == {PreOrder(t, n)[k] : k \in 2..Len(PreOrder(t, n))}

\* An iteration of the while loop: the pair appended lies strictly inside
\* the subtree the previous search started at, and so does the node the
\* next search starts at (the pair's VP).
IterationGoesDeeper ==
    (pc = "extract_loop" /\ pair_dicts' # pair_dicts /\ pc' = "extract_loop") =>
        /\ Len(pair_dicts') = Len(pair_dicts) + 1
        /\ SearchFrom(pair_dicts') \in ProperDescendants(tree, SearchFrom(pair_dicts))
        /\ (pair_dicts # <<>> =>
               pair_dicts'[Len(pair_dicts')].NP \in ProperDescendants(tree, SearchFrom(pair_dicts)))

\* C19 (SpecExtractLive): the call returns on every tree; every iteration
\* of its loop moves the search strictly inside the predicate subtree of the
\* pair just found; the number of pairs never exceeds the depth of the tree.
C19_Terminates ==
    /\ <>(pc = "extract_done")
    /\ [](Len(pair_dicts) <= Height(tree, 1))
    /\ [][IterationGoesDeeper]_vars

\* The call has returned as many pairs as the tree has levels below its top
\* node, more than one.
C19_Witness ==
    /\ pc = "extract_done"
    /\ Len(pair_dicts) = Height(tree, 1)
    /\ Len(pair_dicts) >= 2

====
